---- MODULE Spec2Model ----
(***************************************************************************)
(* Model of .github/release_helper.py: the release gate of the icon        *)
(* repository.  The script is executed top to bottom at module load:       *)
(*   line 19   last_release = sorted(tags, key=commit time)[-2].name       *)
(*   line 110  result = get_new_icon_since(last_release)                   *)
(*   line 113  greenlight = is_greenlight(result, is_workflow_dispatch(),  *)
(*                                        DAY_THRESHOLD, NEW_THRESHOLD)    *)
(*   line 116  exit(1 if not greenlight else 0)                            *)
(* The world the script reads (tags, HEAD, the svgs directory at each      *)
(* checked-out tree, the environment, the clock) is part of the state.     *)
(* A file name is represented by a natural number: two names are the same  *)
(* file name exactly when the numbers are equal.                           *)
(***************************************************************************)
EXTENDS Integers, Sequences, FiniteSets

VARIABLES
  pc,                 \* position of the script
  tags,               \* repo.tags: sequence of [name, time]
  head,               \* repo.head: [detached, ref]
  start_head,         \* repo.head when the script started
  current_dir,        \* ../svgs in the tree of the starting reference
  release_dir,        \* ../svgs in the tree of the last-release reference
  env,                \* os.environ (function: variable name -> value)
  clock_day,          \* datetime.datetime.now().day
  git_log,            \* repo.git.checkout invocations so far: [ref, ok]
  last_release,       \* module global last_release
  current_icons,      \* local of get_new_icon_since
  previous_icons,     \* local of get_new_icon_since
  original_ref,       \* local of git_checkout
  error,              \* exception in flight / the one that ended the run
  result,             \* module global result (a list)
  manually_triggered, \* parameter of is_greenlight
  day_threshold,      \* parameter of is_greenlight
  new_threshold,      \* parameter of is_greenlight
  greenlight,         \* module global greenlight
  exit_code           \* <<status>> once the process terminated, else Running

vars == <<pc, tags, head, start_head, current_dir, release_dir, env,
          clock_day, git_log, last_release, current_icons, previous_icons,
          original_ref, error, result, manually_triggered, day_threshold,
          new_threshold, greenlight, exit_code>>

-----------------------------------------------------------------------------
\* Program constants

NEW_THRESHOLD == 100
DAY_THRESHOLD == 1

\* Bounds of the model
NumNames == 2       \* individually chosen file names in a directory
MaxTags == 3        \* longest tag list
MaxTime == 3        \* distinct commit timestamps
MaxCount == 3       \* small new-icon counts tried against small thresholds
MaxThreshold == 3   \* small new_threshold values

Unset == "unset"    \* a name that is not bound yet
NoError == "none"
Running == <<>>     \* exit_code of a process that has not terminated

-----------------------------------------------------------------------------
\* Python helpers

\* seq[i] with Python's index rule: zero based, negative counts from the end,
\* IndexError when out of range.
getitem(s, i) ==
  LET k == IF i < 0 THEN Len(s) + i ELSE i
  IN IF k >= 0 /\ k < Len(s)
       THEN [raised |-> FALSE, value |-> s[k + 1]]
       ELSE [raised |-> TRUE, value |-> Unset]

\* list.insert step of a stable ascending sort keyed on the commit time:
\* x goes after every element whose key is <= its own.
RECURSIVE insort(_, _)
insort(s, x) ==
  IF s = <<>> THEN <<x>>
  ELSE IF s[Len(s)].time <= x.time
    THEN Append(s, x)
    ELSE Append(insort(SubSeq(s, 1, Len(s) - 1), x), s[Len(s)])

\* sorted(ts, key=lambda t: t.commit.committed_datetime): stable, ascending.
RECURSIVE sorted(_)
sorted(ts) ==
  IF ts = <<>> THEN <<>>
  ELSE insort(sorted(SubSeq(ts, 1, Len(ts) - 1)), ts[Len(ts)])

\* list(s) of a set: every element once, in an order the language leaves
\* unspecified (one fixed enumeration is taken; only len() is used later).
RECURSIVE list(_)
list(S) ==
  IF S = {} THEN <<>>
  ELSE LET x == CHOOSE y \in S : TRUE IN <<x>> \o list(S \ {x})

\* os.getenv(k): <<v>> when the variable is set to v, <<>> (None) otherwise.
getenv(e, k) == IF k \in DOMAIN e THEN <<e[k]>> ELSE <<>>

Range(s) == {s[i] : i \in 1..Len(s)}

-----------------------------------------------------------------------------
\* Line 19: the tag resolver.

\* Variant: index [-1], the newest tag.
last_release_of_newest(ts) ==
  LET t == getitem(sorted(ts), -1)
  IN IF t.raised THEN t ELSE [raised |-> FALSE, value |-> t.value.name]

\* Variant: the tag list taken in the order the repository gives it.
last_release_of_unsorted(ts) ==
  LET t == getitem(ts, -2)
  IN IF t.raised THEN t ELSE [raised |-> FALSE, value |-> t.value.name]

\* sorted(git.Repo(REPOSITORY).tags, key=...)[-2].name
last_release_of(ts) ==
  LET t == getitem(sorted(ts), -2)
  IN IF t.raised THEN t ELSE [raised |-> FALSE, value |-> t.value.name]

\* Variant: both variables required.
is_workflow_dispatch_and(e) ==
  IF getenv(e, "GITHUB_EVENT_NAME") = <<"workflow_dispatch">>
     /\ getenv(e, "CI_PIPELINE_SOURCE") = <<"web">>
    THEN TRUE
    ELSE FALSE

\* Lines 22-36.
is_workflow_dispatch(e) ==
  IF getenv(e, "GITHUB_EVENT_NAME") = <<"workflow_dispatch">>
     \/ getenv(e, "CI_PIPELINE_SOURCE") = <<"web">>
    THEN TRUE
    ELSE FALSE

\* Variant: no manual gate.
is_greenlight_no_manual(res, manual, day_thr, new_thr, today) ==
  IF today # day_thr THEN FALSE
  ELSE IF Len(res) < new_thr THEN FALSE
  ELSE TRUE

\* Variant: the count gate refuses a count equal to the threshold.
is_greenlight_le(res, manual, day_thr, new_thr, today) ==
  IF manual THEN TRUE
  ELSE IF today # day_thr THEN FALSE
  ELSE IF Len(res) <= new_thr THEN FALSE
  ELSE TRUE

\* Lines 82-107; today is datetime.datetime.now().day, read only when the
\* manual gate did not return.
is_greenlight(res, manual, day_thr, new_thr, today) ==
  IF manual THEN TRUE
  ELSE IF today # day_thr THEN FALSE
  ELSE IF Len(res) < new_thr THEN FALSE
  ELSE TRUE

-----------------------------------------------------------------------------
\* The repository and the file system

Branches == {"main", "develop"}

\* repo.head.is_detached
is_detached(h) == h.detached

\* repo.active_branch and repo.head.ref are the same lookup, head.reference:
\* it raises TypeError when HEAD is a detached symbolic reference.
head_reference_name(h) ==
  IF h.detached THEN [raised |-> TRUE, value |-> Unset]
  ELSE [raised |-> FALSE, value |-> h.ref]

\* Line 52: repo.active_branch.name if repo.head.is_detached
\*          else repo.head.ref.name
record_original_ref(h) ==
  IF is_detached(h) THEN head_reference_name(h) ELSE head_reference_name(h)

\* HEAD after a successful `git checkout ref`: attached for a branch name,
\* detached for a tag or a commit.
checked_out(ref) ==
  IF ref \in Branches THEN [detached |-> FALSE, ref |-> ref]
  ELSE [detached |-> TRUE, ref |-> ref]

\* os.listdir('../svgs') reads the working tree, i.e. the tree of whatever
\* is checked out at the moment of the call.
listdir(h) == IF h.ref = start_head.ref THEN current_dir ELSE release_dir

-----------------------------------------------------------------------------
\* Values of the world

Days == 1..31

TagNames == {"nightly", "v2.12.0", "v2.11.0", "v2.10.0"}

TagRecs == [name : TagNames, time : 1..MaxTime]

\* Every tag list of up to MaxTags tags, in every order, names distinct
\* (a repository has one tag per name), commit times possibly equal.
TagLists ==
  {ts \in UNION {[1..n -> TagRecs] : n \in 0..MaxTags} :
     \A i, j \in 1..Len(ts) : i # j => ts[i].name # ts[j].name}

\* The tag lists of the whole-script runs.
DriverTagLists ==
  { <<>>,
    <<[name |-> "nightly", time |-> 1]>>,
    <<[name |-> "nightly", time |-> 2], [name |-> "v2.12.0", time |-> 1]>>,
    <<[name |-> "nightly", time |-> 3], [name |-> "v2.10.0", time |-> 1],
      [name |-> "v2.11.0", time |-> 2]>> }

StartHeads ==
  { [detached |-> FALSE, ref |-> "main"],
    [detached |-> FALSE, ref |-> "develop"],
    [detached |-> TRUE, ref |-> "4f2a9c1"] }

\* Directories: ../svgs missing, or holding any choice of NumNames single
\* files together with a block of 0, NEW_THRESHOLD - 1 or NEW_THRESHOLD more.
Block(n) == {NumNames + i : i \in 1..n}

NoDir == [exists |-> FALSE, files |-> {}]

Dirs ==
  {NoDir} \cup
  {[exists |-> TRUE, files |-> S \cup Block(n)] :
     S \in SUBSET (1..NumNames), n \in {0, NEW_THRESHOLD - 1, NEW_THRESHOLD}}

EnvStrings ==
  {"workflow_dispatch", "web", "push", "schedule", "pull_request",
   "Workflow_Dispatch", "WEB", ""}

EnvVars == {"GITHUB_EVENT_NAME", "CI_PIPELINE_SOURCE"}

Envs == UNION {[D -> EnvStrings] : D \in SUBSET EnvVars}

DriverEnvs ==
  { [v \in {} |-> ""],
    [v \in {"GITHUB_EVENT_NAME"} |-> "workflow_dispatch"],
    [v \in EnvVars |-> IF v = "GITHUB_EVENT_NAME" THEN "push" ELSE "schedule"] }

DriverDays == {DAY_THRESHOLD, 15}

Icons(n) == [i \in 1..n |-> i]

Counts == (0..MaxCount) \cup {NEW_THRESHOLD - 1, NEW_THRESHOLD, 150, 1000}

NewThresholds == (0..MaxThreshold) \cup {NEW_THRESHOLD}

DayThresholds == 0..32

-----------------------------------------------------------------------------
\* Initial states

\* Nothing of the script has run: its names are unbound.
Fresh ==
  /\ git_log = <<>>
  /\ last_release = Unset
  /\ current_icons = {}
  /\ previous_icons = {}
  /\ original_ref = Unset
  /\ error = NoError
  /\ greenlight = FALSE
  /\ exit_code = Running

Init ==
  /\ pc = "resolve"
  /\ tags \in DriverTagLists
  /\ head \in StartHeads
  /\ start_head = head
  /\ current_dir \in Dirs
  /\ release_dir \in Dirs
  /\ env \in DriverEnvs
  /\ clock_day \in DriverDays
  /\ result = <<>>
  /\ manually_triggered = FALSE
  /\ day_threshold = DAY_THRESHOLD
  /\ new_threshold = NEW_THRESHOLD
  /\ Fresh

-----------------------------------------------------------------------------
\* An uncaught exception ends the process with status 1.
Abort(e) ==
  /\ error' = e
  /\ pc' = "done"
  /\ exit_code' = <<1>>

\* Line 19
ResolveLastRelease ==
  /\ pc = "resolve"
  /\ LET r == last_release_of(tags)
     IN IF r.raised
          THEN Abort("IndexError") /\ UNCHANGED last_release
          ELSE /\ last_release' = r.value
               /\ pc' = "listdir_current"
               /\ UNCHANGED <<error, exit_code>>
  /\ UNCHANGED <<tags, head, start_head, current_dir, release_dir, env,
                 clock_day, git_log, current_icons, previous_icons,
                 original_ref, result, manually_triggered, day_threshold,
                 new_threshold, greenlight>>

\* Line 73 (line 110 has entered get_new_icon_since)
ListCurrent ==
  /\ pc = "listdir_current"
  /\ LET d == listdir(head)
     IN IF ~d.exists
          THEN Abort("FileNotFoundError") /\ UNCHANGED current_icons
          ELSE /\ current_icons' = d.files
               /\ pc' = "record_ref"
               /\ UNCHANGED <<error, exit_code>>
  /\ UNCHANGED <<tags, head, start_head, current_dir, release_dir, env,
                 clock_day, git_log, last_release, previous_icons,
                 original_ref, result, manually_triggered, day_threshold,
                 new_threshold, greenlight>>

\* Line 52 (line 76 has entered git_checkout)
RecordRef ==
  /\ pc = "record_ref"
  /\ LET o == record_original_ref(head)
     IN IF o.raised
          THEN Abort("TypeError") /\ UNCHANGED original_ref
          ELSE /\ original_ref' = o.value
               /\ pc' = "checkout"
               /\ UNCHANGED <<error, exit_code>>
  /\ UNCHANGED <<tags, head, start_head, current_dir, release_dir, env,
                 clock_day, git_log, last_release, current_icons,
                 previous_icons, result, manually_triggered, day_threshold,
                 new_threshold, greenlight>>

\* Variant: line 53 placed inside the try block, so that finally runs
\* after a refused checkout as well.
Checkout_in_try ==
  /\ pc = "checkout"
  /\ \E ok \in BOOLEAN :
       /\ git_log' = Append(git_log, [ref |-> last_release, ok |-> ok])
       /\ IF ok
            THEN /\ head' = checked_out(last_release)
                 /\ pc' = "listdir_previous"
                 /\ UNCHANGED error
            ELSE /\ error' = "GitCommandError"
                 /\ pc' = "restore"
                 /\ UNCHANGED head
  /\ UNCHANGED <<tags, start_head, current_dir, release_dir, env, clock_day,
                 last_release, current_icons, previous_icons, original_ref,
                 result, manually_triggered, day_threshold, new_threshold,
                 greenlight, exit_code>>

\* Line 53, before the try block: a refused checkout (conflict with the
\* working tree, unreadable reference) leaves HEAD where it was and raises.
Checkout ==
  /\ pc = "checkout"
  /\ \E ok \in BOOLEAN :
       /\ git_log' = Append(git_log, [ref |-> last_release, ok |-> ok])
       /\ IF ok
            THEN /\ head' = checked_out(last_release)
                 /\ pc' = "listdir_previous"
                 /\ UNCHANGED <<error, exit_code>>
            ELSE Abort("GitCommandError") /\ UNCHANGED head
  /\ UNCHANGED <<tags, start_head, current_dir, release_dir, env, clock_day,
                 last_release, current_icons, previous_icons, original_ref,
                 result, manually_triggered, day_threshold, new_threshold,
                 greenlight>>

\* Variant: line 77 with no finally block around the yield.
ListPrevious_no_finally ==
  /\ pc = "listdir_previous"
  /\ LET d == listdir(head)
     IN IF ~d.exists
          THEN Abort("FileNotFoundError") /\ UNCHANGED previous_icons
          ELSE /\ previous_icons' = d.files
               /\ pc' = "restore"
               /\ UNCHANGED <<error, exit_code>>
  /\ UNCHANGED <<tags, head, start_head, current_dir, release_dir, env,
                 clock_day, git_log, last_release, current_icons,
                 original_ref, result, manually_triggered, day_threshold,
                 new_threshold, greenlight>>

\* Line 77, the body of the with statement: an exception raised here is
\* thrown into the generator at the yield, inside try, so finally runs.
ListPrevious ==
  /\ pc = "listdir_previous"
  /\ LET d == listdir(head)
     IN IF ~d.exists
          THEN /\ error' = "FileNotFoundError"
               /\ UNCHANGED previous_icons
          ELSE /\ previous_icons' = d.files
               /\ UNCHANGED error
  /\ pc' = "restore"
  /\ UNCHANGED <<tags, head, start_head, current_dir, release_dir, env,
                 clock_day, git_log, last_release, current_icons,
                 original_ref, result, manually_triggered, day_threshold,
                 new_threshold, greenlight, exit_code>>

\* Line 57, the finally block: check the recorded reference out again, then
\* re-raise the exception in flight, if any.  The reference was checked out
\* when the script started and the checkout away from it succeeded, so git
\* accepts the checkout back.
Restore ==
  /\ pc = "restore"
  /\ git_log' = Append(git_log, [ref |-> original_ref, ok |-> TRUE])
  /\ head' = checked_out(original_ref)
  /\ IF error # NoError
       THEN pc' = "done" /\ exit_code' = <<1>>
       ELSE pc' = "diff" /\ UNCHANGED exit_code
  /\ UNCHANGED <<tags, start_head, current_dir, release_dir, env, clock_day,
                 last_release, current_icons, previous_icons, original_ref,
                 error, result, manually_triggered, day_threshold,
                 new_threshold, greenlight>>

\* Variant: the difference taken the other way round.
Diff_reversed ==
  /\ pc = "diff"
  /\ result' = list(previous_icons \ current_icons)
  /\ pc' = "dispatch"
  /\ UNCHANGED <<tags, head, start_head, current_dir, release_dir, env,
                 clock_day, git_log, last_release, current_icons,
                 previous_icons, original_ref, error, manually_triggered,
                 day_threshold, new_threshold, greenlight, exit_code>>

\* Lines 79 and 110: result = list(current_icons - previous_icons)
Diff ==
  /\ pc = "diff"
  /\ result' = list(current_icons \ previous_icons)
  /\ pc' = "dispatch"
  /\ UNCHANGED <<tags, head, start_head, current_dir, release_dir, env,
                 clock_day, git_log, last_release, current_icons,
                 previous_icons, original_ref, error, manually_triggered,
                 day_threshold, new_threshold, greenlight, exit_code>>

\* Line 113, the argument is_workflow_dispatch(), evaluated before the call
Dispatch ==
  /\ pc = "dispatch"
  /\ manually_triggered' = is_workflow_dispatch(env)
  /\ pc' = "greenlight"
  /\ UNCHANGED <<tags, head, start_head, current_dir, release_dir, env,
                 clock_day, git_log, last_release, current_icons,
                 previous_icons, original_ref, error, result, day_threshold,
                 new_threshold, greenlight, exit_code>>

\* Line 113: greenlight = is_greenlight(result, <manual>, DAY_THRESHOLD,
\*                                      NEW_THRESHOLD)
Greenlight ==
  /\ pc = "greenlight"
  /\ day_threshold' = DAY_THRESHOLD
  /\ new_threshold' = NEW_THRESHOLD
  /\ greenlight' = is_greenlight(result, manually_triggered, DAY_THRESHOLD,
                                 NEW_THRESHOLD, clock_day)
  /\ pc' = "exit"
  /\ UNCHANGED <<tags, head, start_head, current_dir, release_dir, env,
                 clock_day, git_log, last_release, current_icons,
                 previous_icons, original_ref, error, result,
                 manually_triggered, exit_code>>

\* Variant: the two statuses exchanged.
Exit_swapped ==
  /\ pc = "exit"
  /\ exit_code' = IF ~greenlight THEN <<0>> ELSE <<1>>
  /\ pc' = "done"
  /\ UNCHANGED <<tags, head, start_head, current_dir, release_dir, env,
                 clock_day, git_log, last_release, current_icons,
                 previous_icons, original_ref, error, result,
                 manually_triggered, day_threshold, new_threshold, greenlight>>

\* Line 116: exit(1 if not greenlight else 0)
Exit ==
  /\ pc = "exit"
  /\ exit_code' = IF ~greenlight THEN <<1>> ELSE <<0>>
  /\ pc' = "done"
  /\ UNCHANGED <<tags, head, start_head, current_dir, release_dir, env,
                 clock_day, git_log, last_release, current_icons,
                 previous_icons, original_ref, error, result,
                 manually_triggered, day_threshold, new_threshold, greenlight>>

Next ==
  \/ ResolveLastRelease
  \/ ListCurrent
  \/ RecordRef
  \/ Checkout
  \/ ListPrevious
  \/ Restore
  \/ Diff
  \/ Dispatch
  \/ Greenlight
  \/ Exit

Spec == Init /\ [][Next]_vars

-----------------------------------------------------------------------------
\* The functions on their own, over all inputs within the bounds

\* The world of a single function call: everything the call does not read
\* is held at one value.
Idle ==
  /\ head = [detached |-> FALSE, ref |-> "main"]
  /\ start_head = head
  /\ current_dir = NoDir
  /\ release_dir = NoDir
  /\ Fresh

\* Line 19 applied to every tag list
InitTags ==
  /\ pc = "resolve"
  /\ tags \in TagLists
  /\ env = [v \in {} |-> ""]
  /\ clock_day = DAY_THRESHOLD
  /\ result = <<>>
  /\ manually_triggered = FALSE
  /\ day_threshold = DAY_THRESHOLD
  /\ new_threshold = NEW_THRESHOLD
  /\ Idle

SpecTags == InitTags /\ [][ResolveLastRelease]_vars

\* is_workflow_dispatch (lines 22-36) applied to every environment
InitDispatch ==
  /\ pc = "dispatch"
  /\ tags = <<>>
  /\ env \in Envs
  /\ clock_day = DAY_THRESHOLD
  /\ result = <<>>
  /\ manually_triggered = FALSE
  /\ day_threshold = DAY_THRESHOLD
  /\ new_threshold = NEW_THRESHOLD
  /\ Idle

SpecDispatch == InitDispatch /\ [][Dispatch]_vars

\* is_greenlight (lines 82-107) called with arbitrary arguments
CallIsGreenlight ==
  /\ pc = "call_is_greenlight"
  /\ greenlight' = is_greenlight(result, manually_triggered, day_threshold,
                                 new_threshold, clock_day)
  /\ pc' = "returned"
  /\ UNCHANGED <<tags, head, start_head, current_dir, release_dir, env,
                 clock_day, git_log, last_release, current_icons,
                 previous_icons, original_ref, error, result,
                 manually_triggered, day_threshold, new_threshold, exit_code>>

InitGreenlight ==
  /\ pc = "call_is_greenlight"
  /\ tags = <<>>
  /\ env = [v \in {} |-> ""]
  /\ clock_day \in Days
  /\ result \in {Icons(n) : n \in Counts}
  /\ manually_triggered \in BOOLEAN
  /\ day_threshold \in DayThresholds
  /\ new_threshold \in NewThresholds
  /\ Idle

SpecGreenlight == InitGreenlight /\ [][CallIsGreenlight]_vars

-----------------------------------------------------------------------------
\* Properties

Returned == pc \in {"dispatch", "greenlight", "exit"} \/ (pc = "done" /\ error = NoError)

C2Theorem ==
  (pc = "returned" /\ manually_triggered) => greenlight

\* Manual trigger with no new icon, on a day that is not the release day.
C2Witness ==
  /\ pc = "returned"
  /\ manually_triggered
  /\ result = <<>>
  /\ clock_day # day_threshold
  /\ new_threshold > 0
  /\ greenlight

\* C3: without manual trigger is_greenlight returns True exactly when today
\* is the release day and the list has at least new_threshold elements.
C3Theorem ==
  (pc = "returned" /\ ~manually_triggered) =>
    (greenlight <=> (clock_day = day_threshold /\ Len(result) >= new_threshold))

\* The release day, 99 new icons against a threshold of 100: refused.
C3Witness ==
  /\ pc = "returned"
  /\ ~manually_triggered
  /\ clock_day = day_threshold
  /\ Len(result) = 99
  /\ new_threshold = 100
  /\ ~greenlight

\* The stages of the script, in the order of the source.
Stage(p) ==
  CASE p = "resolve" -> 1
    [] p \in {"listdir_current", "record_ref", "checkout",
              "listdir_previous", "restore", "diff"} -> 2
    [] p = "dispatch" -> 3
    [] p = "greenlight" -> 4
    [] p = "exit" -> 5
    [] OTHER -> 6

C4Order ==
  pc' # pc =>
    \/ pc' = "done" /\ (error' = NoError => pc = "exit")
    \/ pc' # "done" /\ Stage(pc') \in {Stage(pc), Stage(pc) + 1}

C4Exit ==
  pc = "done" =>
    /\ exit_code = <<0>> <=> (error = NoError /\ greenlight)
    /\ (error = NoError /\ ~greenlight) => exit_code = <<1>>
    /\ error # NoError => exit_code = <<1>>
    /\ error = NoError =>
         /\ day_threshold = 1
         /\ new_threshold = 100
         /\ greenlight <=>
              (manually_triggered \/ (clock_day = 1 /\ Len(result) >= 100))

\* C4: the script goes through resolve, new icons, trigger, greenlight (with
\* day 1 and count 100) and exit in this order, ends with status 0 exactly
\* when the decision was True, with status 1 when it was False, and never
\* with status 0 when a stage raised.
C4Theorem == [][C4Order]_vars /\ []C4Exit

\* A scheduled run on the release day with enough new icons exits 0.
C4Witness ==
  /\ pc = "done"
  /\ exit_code = <<0>>
  /\ ~manually_triggered
  /\ Len(result) >= NEW_THRESHOLD

Later(i) == Cardinality({j \in 1..Len(tags) : tags[j].time > tags[i].time})

NotEarlier(i) ==
  Cardinality({j \in 1..Len(tags) : j # i /\ tags[j].time >= tags[i].time})

C6Theorem ==
  Len(tags) < 2 =>
    /\ pc \in {"resolve", "done"}
    /\ git_log = <<>>
    /\ head = start_head
    /\ pc = "done" => (error = "IndexError" /\ exit_code = <<1>>)

\* A repository with a single tag, after the run.
C6Witness ==
  /\ pc = "done"
  /\ Len(tags) = 1
  /\ error = "IndexError"

\* C7: the list get_new_icon_since returns holds, once each, exactly the
\* names that are in ../svgs in the tree the script started on and are not
\* in ../svgs in the tree of the last release.
C7Theorem ==
  Returned =>
    /\ Range(result) = current_dir.files \ release_dir.files
    /\ Len(result) = Cardinality(current_dir.files \ release_dir.files)

\* One file is new, one is in both trees, and a block of files exists at the
\* last release only.
C7Witness ==
  /\ pc = "dispatch"
  /\ current_dir.files = {1, 2}
  /\ release_dir.files = {1} \cup Block(NEW_THRESHOLD)
  /\ result = <<2>>

\* C8 as claimed: when the checkout of the last release fails, the checkout
\* of the original reference is still issued before the error ends the run.
C8Original ==
  (pc = "done" /\ error = "GitCommandError") =>
    \E i \in 2..Len(git_log) : git_log[i].ref = original_ref

\* C8 amended: when the checkout of the last release fails, the error ends
\* the run at once (status 1) and no checkout of the original reference is
\* issued; HEAD is still the original reference, the refused checkout not
\* having moved it.
C8Amended ==
  (pc = "done" /\ error = "GitCommandError") =>
    /\ git_log = <<[ref |-> last_release, ok |-> FALSE]>>
    /\ head = start_head
    /\ exit_code = <<1>>

\* The checkout of the last release was refused and the run has ended.
C8Witness ==
  /\ pc = "done"
  /\ error = "GitCommandError"
  /\ Len(git_log) = 1

\* C9: is_workflow_dispatch returns True exactly when GITHUB_EVENT_NAME is
\* set to "workflow_dispatch" or CI_PIPELINE_SOURCE is set to "web", and
\* raises nothing, whichever of the two variables are set.
C9Theorem ==
  pc = "greenlight" =>
    /\ error = NoError
    /\ manually_triggered <=>
         \/ ("GITHUB_EVENT_NAME" \in DOMAIN env
             /\ env["GITHUB_EVENT_NAME"] = "workflow_dispatch")
         \/ ("CI_PIPELINE_SOURCE" \in DOMAIN env
             /\ env["CI_PIPELINE_SOURCE"] = "web")

\* Only the GitLab variable is set, to "web".
C9Witness ==
  /\ pc = "greenlight"
  /\ DOMAIN env = {"CI_PIPELINE_SOURCE"}
  /\ env["CI_PIPELINE_SOURCE"] = "web"
  /\ manually_triggered

\* C10 as claimed: recording the original reference never fails, with HEAD
\* attached or detached, and records the reference that was active.
C10Claim ==
  /\ error # "TypeError"
  /\ pc \in {"checkout", "listdir_previous", "restore"} =>
       original_ref = start_head.ref

====
